---- MODULE Spec2Model ----
(***************************************************************************)
(* A model of the bulk-import client (bulk.go: Create, Get, Failures) and  *)
(* of the custom-object filter's record decoding (custom.go: Filter).      *)
(*                                                                         *)
(* One call is in flight at a time.  A call runs up to the point where it  *)
(* blocks in Client.doRequest (pc = "inRequest"); the transport then hands *)
(* back an outcome and the rest of the function runs to its return         *)
(* (pc = "done").  The caller's context can be cancelled while the call is *)
(* blocked.                                                                *)
(***************************************************************************)
EXTENDS Integers, Sequences, FiniteSets, TLC

VARIABLES
    pc,        \* "idle" | "inRequest" | "done": where the call in flight stands
    op,        \* "none" | "Create" | "Get" | "Failures" | "Filter"
    ctxDone,   \* the ctx argument of the call in flight has been cancelled
    requests,  \* number of Client.doRequest calls made by the call in flight
    resp,      \* what doRequest handed back to the call in flight
    ret        \* what the call returned: result, err, and the decoding steps it ran

vars == <<pc, op, ctxDone, requests, resp, ret>>

----------------------------------------------------------------------------
(* Bounds of the inputs the model enumerates.                              *)

MaxRows == 2      \* rows in an envelope's result array
MaxCount == 2     \* largest processed-counter value a row carries
MaxErrors == 2    \* entries in an envelope's errors array
MaxCols == 2      \* cells in one CSV line
MaxLines == 3     \* lines in a CSV body (the header line included)
MaxRecords == 2   \* records in a filter result

SeqsUpTo(S, n) == UNION {[1..k -> S] : k \in 0..n}

----------------------------------------------------------------------------
(* Program constants.                                                      *)

StatusOK == 200
StatusNotFound == 404
Statuses == {StatusOK, StatusNotFound, 500}

BatchComplete == "Complete"
BatchQueued == "Queued"
BatchImporting == "Importing"
BatchFailed == "Failed"

createImport == "create bulk import"
getImport == "get import status"
getImportFailures == "get import failures"
filterLeads == "filter leads"

----------------------------------------------------------------------------
(* Errors and results.  An error is a record; kind "nil" is Go's nil error.*)

Err(kind, label, status, reasons) ==
    [kind |-> kind, label |-> label, status |-> status, reasons |-> reasons]

NoErr == Err("nil", "", 0, <<>>)

\* handleError(action, resp): an error carrying the operation label and the status.
handleError(label, out) == Err("http", label, out.status, <<>>)

\* ErrorForReasons(status, reasons...): an error carrying the status and every reason.
ErrorForReasons(status, reasons) == Err("api", "", status, reasons)

\* A returned slice or pointer: nil, or a value.
NilResult == [nil |-> TRUE, val |-> <<>>]
Value(v) == [nil |-> FALSE, val |-> v]

Return(result, err, steps) == [result |-> result, err |-> err, steps |-> steps]

NoReturn == Return(NilResult, NoErr, <<>>)

----------------------------------------------------------------------------
(* What the wire can carry.                                                *)

\* BatchResult as decoded from one row; Processed has the tag json:"-" and
\* is never read from the wire.
BatchResult(status, leads, objects) ==
    [Status |-> status, LeadsProcessed |-> leads, ObjectsProcessed |-> objects,
     Processed |-> 0]

Counters == (-1)..MaxCount
WireStatuses == {BatchComplete, BatchQueued, BatchImporting, BatchFailed, "Paused"}

\* Rows: every pair of counters, and every status string.
Rows ==
    {BatchResult(BatchComplete, l, o) : l \in Counters, o \in Counters}
    \cup {BatchResult(s, 0, 0) : s \in WireStatuses}

\* The result member of an envelope: missing, the literal null, a value that
\* is no array of rows, or an array of rows.
Payloads ==
    {[kind |-> k, rows |-> <<>>] : k \in {"absent", "null", "bad"}}
    \cup {[kind |-> "rows", rows |-> r] : r \in SeqsUpTo(Rows, MaxRows)}

\* The errors member of an envelope: up to MaxErrors reasons, told apart by
\* their codes.
ErrorLists == {[i \in 1..k |-> 600 + i] : k \in 0..MaxErrors}

Garbage == [valid |-> FALSE, errors |-> <<>>, result |-> [kind |-> "absent", rows |-> <<>>]]

\* A body of a JSON endpoint: not JSON at all, or an envelope.
Envelopes ==
    {[valid |-> TRUE, errors |-> e, result |-> p] :
        e \in ErrorLists, p \in Payloads}

\* Bodies sent along a status other than 200.
ErrorBodies ==
    {Garbage,
     [valid |-> TRUE, errors |-> <<>>,
      result |-> [kind |-> "rows", rows |-> <<BatchResult(BatchComplete, 1, 0)>>]]}

\* What doRequest hands back: an error, or a response with a status and a body.
SendFailed == [err |-> TRUE, status |-> 0, body |-> Garbage]
Response(status, body) == [err |-> FALSE, status |-> status, body |-> body]

JSONOutcomes ==
    {SendFailed}
    \cup {Response(StatusOK, b) : b \in {Garbage} \cup Envelopes}
    \cup {Response(s, b) : s \in Statuses \ {StatusOK}, b \in ErrorBodies}

----------------------------------------------------------------------------
(* encoding/json as the functions use it.                                  *)

\* json.Unmarshal(response.Result, &rows): an error for a missing member (no
\* input) and for a value that is no array of rows; null leaves the slice empty.
UnmarshalFails(p) == p.kind \in {"absent", "bad"}
Unmarshal(p) == IF p.kind = "rows" THEN p.rows ELSE <<>>

----------------------------------------------------------------------------
(* ImportAPI.Create, from the return of doRequest on.                      *)

\* Create without the check of the envelope's errors.
Create_ignoringErrors(out) ==
    IF out.err THEN Return(NilResult, Err("send", "", 0, <<>>), <<>>)
    ELSE IF out.status # StatusOK
        THEN Return(NilResult, handleError(createImport, out), <<>>)
    ELSE IF ~out.body.valid
        THEN Return(NilResult, Err("decode", "", 0, <<>>), <<"Decode">>)
    ELSE IF UnmarshalFails(out.body.result)
        THEN Return(NilResult, Err("decode", "", 0, <<>>), <<"Decode", "Unmarshal">>)
    ELSE Return(Value(Unmarshal(out.body.result)), NoErr, <<"Decode", "Unmarshal">>)

Create(out) ==
    IF out.err THEN Return(NilResult, Err("send", "", 0, <<>>), <<>>)
    ELSE IF out.status # StatusOK
        THEN Return(NilResult, handleError(createImport, out), <<>>)
    ELSE IF ~out.body.valid
        THEN Return(NilResult, Err("decode", "", 0, <<>>), <<"Decode">>)
    ELSE IF Len(out.body.errors) > 0
        THEN Return(NilResult, ErrorForReasons(out.status, out.body.errors), <<"Decode">>)
    ELSE IF UnmarshalFails(out.body.result)
        THEN Return(NilResult, Err("decode", "", 0, <<>>), <<"Decode", "Unmarshal">>)
    ELSE Return(Value(Unmarshal(out.body.result)), NoErr, <<"Decode", "Unmarshal">>)

----------------------------------------------------------------------------
(* ImportAPI.Get, from the return of doRequest on.                         *)

\* Processed taking ObjectsProcessed whenever it is not zero.
Processed_objectsFirst(r) ==
    IF r.ObjectsProcessed # 0 THEN r.ObjectsProcessed ELSE r.LeadsProcessed

\* The loop of Get over the rows: Processed is ObjectsProcessed, unless
\* LeadsProcessed is positive.
Processed(r) == IF r.LeadsProcessed > 0 THEN r.LeadsProcessed ELSE r.ObjectsProcessed

SetProcessed(rows) == [i \in 1..Len(rows) |-> [rows[i] EXCEPT !.Processed = Processed(rows[i])]]

\* Get decoding the envelope before it looks at the status.
Get_decodingBeforeStatus(out) ==
    IF out.err THEN Return(NilResult, Err("send", "", 0, <<>>), <<>>)
    ELSE IF ~out.body.valid
        THEN Return(NilResult, Err("decode", "", 0, <<>>), <<"Decode">>)
    ELSE IF out.status # StatusOK
        THEN Return(NilResult, handleError(getImport, out), <<"Decode">>)
    ELSE IF Len(out.body.errors) > 0
        THEN Return(NilResult, ErrorForReasons(out.status, out.body.errors), <<"Decode">>)
    ELSE IF UnmarshalFails(out.body.result)
        THEN Return(NilResult, Err("decode", "", 0, <<>>), <<"Decode", "Unmarshal">>)
    ELSE IF Len(Unmarshal(out.body.result)) < 1
        THEN Return(NilResult, Err("notfound", "", 0, <<>>), <<"Decode", "Unmarshal">>)
    ELSE Return(Value(<<SetProcessed(Unmarshal(out.body.result))[1]>>), NoErr,
                <<"Decode", "Unmarshal">>)

\* Get with the emptiness test off by one (len(result) <= 1).
Get_needingTwoRows(out) ==
    IF out.err THEN Return(NilResult, Err("send", "", 0, <<>>), <<>>)
    ELSE IF out.status # StatusOK
        THEN Return(NilResult, handleError(getImport, out), <<>>)
    ELSE IF ~out.body.valid
        THEN Return(NilResult, Err("decode", "", 0, <<>>), <<"Decode">>)
    ELSE IF Len(out.body.errors) > 0
        THEN Return(NilResult, ErrorForReasons(out.status, out.body.errors), <<"Decode">>)
    ELSE IF UnmarshalFails(out.body.result)
        THEN Return(NilResult, Err("decode", "", 0, <<>>), <<"Decode", "Unmarshal">>)
    ELSE IF Len(Unmarshal(out.body.result)) <= 1
        THEN Return(NilResult, Err("notfound", "", 0, <<>>), <<"Decode", "Unmarshal">>)
    ELSE Return(Value(<<SetProcessed(Unmarshal(out.body.result))[1]>>), NoErr,
                <<"Decode", "Unmarshal">>)

Get(out) ==
    IF out.err THEN Return(NilResult, Err("send", "", 0, <<>>), <<>>)
    ELSE IF out.status # StatusOK
        THEN Return(NilResult, handleError(getImport, out), <<>>)
    ELSE IF ~out.body.valid
        THEN Return(NilResult, Err("decode", "", 0, <<>>), <<"Decode">>)
    ELSE IF Len(out.body.errors) > 0
        THEN Return(NilResult, ErrorForReasons(out.status, out.body.errors), <<"Decode">>)
    ELSE IF UnmarshalFails(out.body.result)
        THEN Return(NilResult, Err("decode", "", 0, <<>>), <<"Decode", "Unmarshal">>)
    ELSE IF Len(Unmarshal(out.body.result)) < 1
        THEN Return(NilResult, Err("notfound", "", 0, <<>>), <<"Decode", "Unmarshal">>)
    ELSE Return(Value(<<SetProcessed(Unmarshal(out.body.result))[1]>>), NoErr,
                <<"Decode", "Unmarshal">>)

----------------------------------------------------------------------------
(* The failures endpoint answers with a CSV document: a sequence of lines. *)
(* A line holds cells, is empty, cannot be parsed (a bare quote), or is    *)
(* where the stream breaks.                                                *)

Strs == {"email", "Ann"}

Line(kind, cells) == [kind |-> kind, cells |-> cells]

Lines ==
    {Line("row", c) : c \in UNION {[1..k -> Strs] : k \in 1..MaxCols}}
    \cup {Line(k, <<>>) : k \in {"blank", "parseErr", "readErr"}}

Documents == SeqsUpTo(Lines, MaxLines)

CSVOutcomes ==
    {SendFailed}
    \cup {Response(StatusOK, d) : d \in Documents}
    \cup {Response(s, d) : s \in Statuses \ {StatusOK},
                           d \in {<<>>, <<Line("row", <<"email">>), Line("row", <<"Ann">>)>>}}

----------------------------------------------------------------------------
(* encoding/csv as Failures uses it (FieldsPerRecord starts at 0).        *)

\* csv.Reader.Read from line pos on: empty lines are skipped; the first record
\* read fixes the number of fields, and a later record of another length is
\* ErrFieldCount.
RECURSIVE Read(_, _, _)
Read(doc, pos, fieldsPerRecord) ==
    IF pos > Len(doc)
        THEN [err |-> "EOF", record |-> <<>>, pos |-> pos, fieldsPerRecord |-> fieldsPerRecord]
    ELSE IF doc[pos].kind = "blank"
        THEN Read(doc, pos + 1, fieldsPerRecord)
    ELSE IF doc[pos].kind # "row"
        THEN [err |-> doc[pos].kind, record |-> <<>>, pos |-> pos + 1,
              fieldsPerRecord |-> fieldsPerRecord]
    ELSE IF fieldsPerRecord = 0
        THEN [err |-> "nil", record |-> doc[pos].cells, pos |-> pos + 1,
              fieldsPerRecord |-> Len(doc[pos].cells)]
    ELSE IF Len(doc[pos].cells) # fieldsPerRecord
        THEN [err |-> "fieldCount", record |-> doc[pos].cells, pos |-> pos + 1,
              fieldsPerRecord |-> fieldsPerRecord]
    ELSE [err |-> "nil", record |-> doc[pos].cells, pos |-> pos + 1,
          fieldsPerRecord |-> fieldsPerRecord]

----------------------------------------------------------------------------
(* ImportAPI.Failures, from the return of doRequest on.                    *)

\* m[k] = v on a Go map.
Put(m, k, v) == [x \in (DOMAIN m) \cup {k} |-> IF x = k THEN v ELSE m[x]]

\* The reason taken from the first cell.
ReasonIndex_first(header) == 1

\* Index of the cell taken as the reason: len(header)-1, counted from 1 here.
ReasonIndex(header) == Len(header)

\* The inner loop: failure.Fields[header[i]] = record[i] for i < len(header)-1.
RECURSIVE SetFields(_, _, _, _)
SetFields(m, header, record, i) ==
    IF i > Len(header) - 1 THEN m
    ELSE SetFields(Put(m, header[i], record[i]), header, record, i + 1)

LeadImportFailure(header, record) ==
    [Reason |-> record[ReasonIndex(header)],
     Fields |-> SetFields(<<>>, header, record, 1)]

\* The outer loop passing over a record that cannot be read, up to the end.
RECURSIVE Scan_skippingBadRows(_, _, _)
Scan_skippingBadRows(doc, header, pos) ==
    LET r == Read(doc, pos, Len(header)) IN
    IF r.err = "nil"
        THEN <<LeadImportFailure(header, r.record)>> \o Scan_skippingBadRows(doc, header, r.pos)
    ELSE IF r.err = "EOF" THEN <<>>
    ELSE Scan_skippingBadRows(doc, header, r.pos)

\* The outer loop: one failure per record, until Read returns an error.
RECURSIVE Scan(_, _, _)
Scan(doc, header, pos) ==
    LET r == Read(doc, pos, Len(header)) IN
    IF r.err = "nil"
        THEN <<LeadImportFailure(header, r.record)>> \o Scan(doc, header, r.pos)
        ELSE <<>>

\* The error returned when the header cannot be read.
HeaderError(err) == Err(err, "", 0, <<>>)

\* Failures without the case for 404.
Failures_without404(out) ==
    IF out.err THEN Return(NilResult, Err("send", "", 0, <<>>), <<>>)
    ELSE IF out.status # StatusOK
        THEN Return(NilResult, handleError(getImportFailures, out), <<>>)
    ELSE LET h == Read(out.body, 1, 0) IN
        IF h.err # "nil"
            THEN Return(NilResult, HeaderError(h.err), <<"ReadCSV">>)
            ELSE Return(Value(Scan(out.body, h.record, h.pos)), NoErr, <<"ReadCSV">>)

Failures(out) ==
    IF out.err THEN Return(NilResult, Err("send", "", 0, <<>>), <<>>)
    ELSE IF out.status = StatusNotFound
        THEN Return(NilResult, NoErr, <<>>)
    ELSE IF out.status # StatusOK
        THEN Return(NilResult, handleError(getImportFailures, out), <<>>)
    ELSE LET h == Read(out.body, 1, 0) IN
        IF h.err # "nil"
            THEN Return(NilResult, HeaderError(h.err), <<"ReadCSV">>)
            ELSE Return(Value(Scan(out.body, h.record, h.pos)), NoErr, <<"ReadCSV">>)

----------------------------------------------------------------------------
(* The filter endpoint answers with an envelope whose result is an array   *)
(* of records: maps from field name to a JSON string or a JSON number.     *)

Str(x) == [type |-> "string", s |-> x, n |-> 0]
Num(x) == [type |-> "number", s |-> "", n |-> x]

WireValues == {Str("g1"), Num(3)}
WireKeys == {"marketoGUID", "seq", "Sequence", "color"}

Records == UNION {[K -> WireValues] : K \in SUBSET WireKeys}

\* The result member with at most n records.
FilterPayloads(n) ==
    {[kind |-> k, rows |-> <<>>] : k \in {"absent", "null", "bad"}}
    \cup {[kind |-> "rows", rows |-> r] : r \in SeqsUpTo(Records, n)}

FilterEnvelopes(n) ==
    {[valid |-> TRUE, errors |-> e, result |-> p, nextPageToken |-> t] :
        e \in {<<>>, <<601>>}, p \in FilterPayloads(n), t \in {"", "next"}}

FilterGarbage ==
    [valid |-> FALSE, errors |-> <<>>, result |-> [kind |-> "absent", rows |-> <<>>],
     nextPageToken |-> ""]

FilterOutcomes(n) ==
    {[err |-> TRUE, status |-> 0, body |-> FilterGarbage]}
    \cup {Response(StatusOK, b) : b \in {FilterGarbage} \cup FilterEnvelopes(n)}
    \cup {Response(s, FilterGarbage) : s \in Statuses \ {StatusOK}}

----------------------------------------------------------------------------
(* mapstructure.Decode(l, &results[i]) on CustomObjectResult.              *)
(* The decoder names a struct field by its mapstructure tag, or by the Go  *)
(* field name when it has none; it does not read json tags.  A key matches *)
(* a field name exactly or, failing that, case-insensitively.              *)

\* strings.EqualFold, on the names that occur.
Lower(k) ==
    CASE k \in {"marketoGUID", "MarketoGUID"} -> "marketoguid"
      [] k \in {"Sequence"} -> "sequence"
      [] OTHER -> k

EqualFold(a, b) == Lower(a) = Lower(b)

\* The name mapstructure looks up for the field MarketoGUID (no mapstructure tag).
MarketoGUIDName == "MarketoGUID"
\* The name mapstructure looks up for the field Sequence (no mapstructure tag).
SequenceName == "Sequence"

\* The keys of l that can be bound to the field called name: the exact key
\* or, when there is none, any key equal to it under case folding (the map
\* is ranged over in no fixed order).
MatchKeys(l, name) ==
    IF name \in DOMAIN l THEN {name}
    ELSE {k \in DOMAIN l : EqualFold(k, name)}

\* A field is bound to one matching key, or left alone when none matches.
Bindings(l, name) ==
    IF MatchKeys(l, name) = {} THEN {"-"} ELSE MatchKeys(l, name)

\* Decoding is not weakly typed: a string field takes a string, an int field
\* takes a number.
DecodeFails(l, g, q) ==
    \/ g # "-" /\ l[g].type # "string"
    \/ q # "-" /\ l[q].type # "number"

\* CustomObjectResult decoded from l with MarketoGUID bound to key g and
\* Sequence to key q; Fields (tagged ",remain") takes every unused key.
CustomObjectResult(l, g, q) ==
    [MarketoGUID |-> IF g = "-" THEN "" ELSE l[g].s,
     Sequence |-> IF q = "-" THEN 0 ELSE l[q].n,
     Fields |-> [k \in (DOMAIN l) \ {g, q} |-> l[k]]]

\* Every outcome of decoding l: an error, or a result.
Decode(l) ==
    {[err |-> DecodeFails(l, g, q), val |-> CustomObjectResult(l, g, q)] :
        g \in Bindings(l, MarketoGUIDName), q \in Bindings(l, SequenceName)}

\* The loop of Filter over the raw records: every way of decoding them all.
DecodeAll(raw) ==
    {d \in [1..Len(raw) -> UNION {Decode(raw[i]) : i \in 1..Len(raw)}] :
        \A i \in 1..Len(raw) : d[i] \in Decode(raw[i])}

----------------------------------------------------------------------------
(* CustomObjects.Filter, from the return of doRequest on.  The envelope's  *)
(* errors are not looked at.                                               *)

FilterResult(result, token, err, steps) ==
    [result |-> result, nextPageToken |-> token, err |-> err, steps |-> steps]

Filter(out) ==
    IF out.err THEN {FilterResult(NilResult, "", Err("send", "", 0, <<>>), <<>>)}
    ELSE IF out.status # StatusOK
        THEN {FilterResult(NilResult, "", handleError(filterLeads, out), <<>>)}
    ELSE IF ~out.body.valid
        THEN {FilterResult(NilResult, "", Err("decode", "", 0, <<>>), <<"Decode">>)}
    ELSE IF UnmarshalFails(out.body.result)
        THEN {FilterResult(NilResult, "", Err("decode", "", 0, <<>>),
                           <<"Decode", "Unmarshal">>)}
    ELSE {IF \E i \in DOMAIN d : d[i].err
            THEN FilterResult(NilResult, "", Err("decode", "", 0, <<>>),
                              <<"Decode", "Unmarshal", "mapstructure">>)
            ELSE FilterResult(Value([i \in DOMAIN d |-> d[i].val]),
                              out.body.nextPageToken, NoErr,
                              <<"Decode", "Unmarshal", "mapstructure">>) :
          d \in DecodeAll(Unmarshal(out.body.result))}

----------------------------------------------------------------------------
(* The calls.                                                              *)

NoResponse == SendFailed

Init ==
    /\ pc = "idle"
    /\ op = "none"
    /\ ctxDone = FALSE
    /\ requests = 0
    /\ resp = NoResponse
    /\ ret = NoReturn

\* The call returns before any request is sent.
ReturnEarly(name, err) ==
    /\ pc' = "done"
    /\ op' = name
    /\ ret' = Return(NilResult, err, <<>>)
    /\ UNCHANGED <<ctxDone, requests, resp>>

\* The call hands its request to doRequest and blocks.
Send(name) ==
    /\ pc' = "inRequest"
    /\ op' = name
    /\ requests' = requests + 1
    /\ UNCHANGED <<ctxDone, resp, ret>>

\* Create up to doRequest: the file is copied into the multipart body, then
\* the request is built.
CreateCall ==
    /\ pc = "idle"
    /\ \E fileOK \in BOOLEAN, urlOK \in BOOLEAN :
        IF ~fileOK THEN ReturnEarly("Create", Err("read", "", 0, <<>>))
        ELSE IF ~urlOK THEN ReturnEarly("Create", Err("build", "", 0, <<>>))
        ELSE Send("Create")

CreateReturn ==
    /\ pc = "inRequest"
    /\ op = "Create"
    /\ \E out \in JSONOutcomes :
        /\ resp' = out
        /\ ret' = Create(out)
    /\ pc' = "done"
    /\ UNCHANGED <<op, ctxDone, requests>>

GetCall ==
    /\ pc = "idle"
    /\ \E urlOK \in BOOLEAN :
        IF ~urlOK THEN ReturnEarly("Get", Err("build", "", 0, <<>>))
        ELSE Send("Get")

\* Get sending the request again when the transport fails.
GetReturn_retrying ==
    /\ pc = "inRequest"
    /\ op = "Get"
    /\ \E out \in JSONOutcomes :
        IF out.err
            THEN /\ requests' = requests + 1
                 /\ UNCHANGED <<pc, op, ctxDone, resp, ret>>
            ELSE /\ resp' = out
                 /\ ret' = Get(out)
                 /\ pc' = "done"
                 /\ UNCHANGED <<op, ctxDone, requests>>

GetReturn ==
    /\ pc = "inRequest"
    /\ op = "Get"
    /\ \E out \in JSONOutcomes :
        /\ resp' = out
        /\ ret' = Get(out)
    /\ pc' = "done"
    /\ UNCHANGED <<op, ctxDone, requests>>

FailuresCall ==
    /\ pc = "idle"
    /\ \E urlOK \in BOOLEAN :
        IF ~urlOK THEN ReturnEarly("Failures", Err("build", "", 0, <<>>))
        ELSE Send("Failures")

FailuresReturn ==
    /\ pc = "inRequest"
    /\ op = "Failures"
    /\ \E out \in CSVOutcomes :
        /\ resp' = out
        /\ ret' = Failures(out)
    /\ pc' = "done"
    /\ UNCHANGED <<op, ctxDone, requests>>

\* Filter up to doRequest: the query is encoded, the request is built and
\* its header is set before the error of building it is looked at.
FilterCall ==
    /\ pc = "idle"
    /\ \E queryOK \in BOOLEAN, urlOK \in BOOLEAN :
        IF ~queryOK THEN ReturnEarly("Filter", Err("query", "", 0, <<>>))
        ELSE IF ~urlOK THEN ReturnEarly("Filter", Err("panic", "", 0, <<>>))
        ELSE Send("Filter")

FilterReturn ==
    /\ pc = "inRequest"
    /\ op = "Filter"
    /\ \E out \in FilterOutcomes(MaxRecords) :
        /\ resp' = out
        /\ ret' \in Filter(out)
    /\ pc' = "done"
    /\ UNCHANGED <<op, ctxDone, requests>>

\* The caller cancels the context while the call is blocked in the request.
CancelCtx ==
    /\ pc = "inRequest"
    /\ ~ctxDone
    /\ ctxDone' = TRUE
    /\ UNCHANGED <<pc, op, requests, resp, ret>>

\* The caller takes the return values; the next call starts afresh.
Finish ==
    /\ pc = "done"
    /\ pc' = "idle"
    /\ op' = "none"
    /\ ctxDone' = FALSE
    /\ requests' = 0
    /\ resp' = NoResponse
    /\ ret' = NoReturn

Next ==
    \/ CreateCall
    \/ CreateReturn
    \/ GetCall
    \/ GetReturn
    \/ FailuresCall
    \/ FailuresReturn
    \/ CancelCtx
    \/ Finish

Spec == Init /\ [][Next]_vars

FilterNext ==
    \/ FilterCall
    \/ FilterReturn
    \/ CancelCtx
    \/ Finish

FilterSpec == Init /\ [][FilterNext]_vars

----------------------------------------------------------------------------
(* Properties.                                                             *)

Done(name) == pc = "done" /\ op = name

\* doRequest handed a response back to the call in flight.
Answered == requests = 1 /\ ~resp.err

ImportOps == {"Create", "Get", "Failures"}

OpLabel(name) == IF name = "Create" THEN createImport ELSE getImport

\* C1: when ctx is cancelled while Create, Get or Failures is blocked in the
\* request, the call returns a canceled error (stated on the returned call:
\* a call whose ctx fired mid-request has returned "canceled").
C1_CancelledCallReturnsCanceled ==
    (pc = "done" /\ op \in ImportOps /\ ctxDone) => ret.err.kind = "canceled"

\* C3: Create and Get, on status 200 with a decoded envelope whose errors list
\* is not empty, return a nil result and the API error built from the status
\* and all the reasons, whatever the result member holds.
C3_EnvelopeErrorsYieldAPIError ==
    (pc = "done" /\ op \in {"Create", "Get"} /\ Answered
        /\ resp.status = StatusOK /\ resp.body.valid /\ Len(resp.body.errors) > 0)
    => /\ ret.result.nil
       /\ ret.err = Err("api", "", StatusOK, resp.body.errors)

C3_Witness ==
    /\ Done("Create") /\ Answered /\ resp.status = StatusOK /\ resp.body.valid
    /\ Len(resp.body.errors) = 2
    /\ resp.body.result.kind = "rows" /\ Len(resp.body.result.rows) = 2
    /\ ret.err.kind = "api"

\* C4: in Create and Get a request that cannot be built or sent returns the
\* transport error; otherwise a status other than 200 returns the HTTP-status
\* error with the operation's label and the envelope is not decoded; only on
\* 200 is the envelope decoded; every error comes with a nil result.
C4_ErrorPrecedence ==
    (pc = "done" /\ op \in {"Create", "Get"}) =>
        /\ requests = 0 => ret.err.kind \in {"read", "build"}
        /\ (requests = 1 /\ resp.err) => ret.err.kind = "send" /\ ret.steps = <<>>
        /\ (Answered /\ resp.status # StatusOK) =>
                /\ ret.err = Err("http", OpLabel(op), resp.status, <<>>)
                /\ ret.steps = <<>>
        /\ (Answered /\ resp.status = StatusOK) => ret.steps # <<>> /\ ret.steps[1] = "Decode"
        /\ ret.err.kind # "nil" => ret.result.nil

C4_Witness ==
    /\ Done("Get") /\ Answered /\ resp.status = 500 /\ resp.body.valid
    /\ ret.err.kind = "http" /\ ret.err.label = getImport /\ ret.result.nil

\* C5: Get, on 200 with an envelope without errors: a result of zero rows
\* gives no job and the not-found error; a result of one or more rows gives
\* exactly one job, the first row.
C5_NotFoundOrFirstRow ==
    (Done("Get") /\ Answered /\ resp.status = StatusOK /\ resp.body.valid
        /\ resp.body.errors = <<>> /\ resp.body.result.kind \in {"rows", "null"})
    => LET rows == resp.body.result.rows IN
       IF rows = <<>>
         THEN ret.result.nil /\ ret.err.kind = "notfound"
         ELSE /\ ret.err = NoErr
              /\ ~ret.result.nil
              /\ Len(ret.result.val) = 1
              /\ ret.result.val[1].Status = rows[1].Status
              /\ ret.result.val[1].LeadsProcessed = rows[1].LeadsProcessed
              /\ ret.result.val[1].ObjectsProcessed = rows[1].ObjectsProcessed

C5_Witness ==
    /\ Done("Get") /\ Answered /\ resp.status = StatusOK /\ resp.body.valid
    /\ resp.body.errors = <<>>
    /\ resp.body.result.kind = "rows" /\ resp.body.result.rows = <<>>
    /\ ret.err.kind = "notfound"

\* The precedence rule on a job: the nonzero counter; LeadsProcessed when
\* both are nonzero; 0 when both are zero.
NonzeroCounterSelected(job) ==
    /\ (job.LeadsProcessed # 0 /\ job.ObjectsProcessed # 0) =>
            job.Processed = job.LeadsProcessed
    /\ (job.LeadsProcessed # 0 /\ job.ObjectsProcessed = 0) =>
            job.Processed = job.LeadsProcessed
    /\ (job.LeadsProcessed = 0 /\ job.ObjectsProcessed # 0) =>
            job.Processed = job.ObjectsProcessed
    /\ (job.LeadsProcessed = 0 /\ job.ObjectsProcessed = 0) => job.Processed = 0

\* C6 as stated: for every job Get returns, whatever integers the counters
\* hold, Processed is the nonzero one of LeadsProcessed and ObjectsProcessed,
\* LeadsProcessed when both are nonzero, 0 when both are zero.
C6_NonzeroCounterForAllIntegers ==
    (Done("Get") /\ ret.err = NoErr) => NonzeroCounterSelected(ret.result.val[1])

\* C6 as amended: the rule holds for every job whose LeadsProcessed is not
\* negative; a negative LeadsProcessed is never selected, Processed is then
\* ObjectsProcessed.
C6_NonzeroCounterWhenLeadsNotNegative ==
    (Done("Get") /\ ret.err = NoErr) =>
        LET job == ret.result.val[1] IN
        /\ job.LeadsProcessed >= 0 => NonzeroCounterSelected(job)
        /\ job.LeadsProcessed < 0 => job.Processed = job.ObjectsProcessed

C6_Witness ==
    /\ Done("Get") /\ ret.err = NoErr
    /\ ret.result.val[1].LeadsProcessed = 1
    /\ ret.result.val[1].ObjectsProcessed = 2
    /\ ret.result.val[1].Processed = 1

\* C7: Failures, on 404, returns an empty list and a nil error without reading
\* the body; on any other status but 200 a nil list and the HTTP-status error
\* labelled "get import failures"; only 200 leads to the CSV being read.
C7_FailuresStatusClasses ==
    (Done("Failures") /\ Answered) =>
        /\ resp.status = StatusNotFound =>
                ret.err = NoErr /\ Len(ret.result.val) = 0 /\ ret.steps = <<>>
        /\ resp.status \notin {StatusNotFound, StatusOK} =>
                /\ ret.result.nil
                /\ ret.err = Err("http", getImportFailures, resp.status, <<>>)
                /\ ret.steps = <<>>
        /\ resp.status = StatusOK <=> ret.steps = <<"ReadCSV">>

C7_Witness ==
    /\ Done("Failures") /\ Answered /\ resp.status = StatusNotFound
    /\ resp.body # <<>>
    /\ ret.err = NoErr /\ ret.result.val = <<>>

\* The records of a document: its lines that are not empty.
IsRecordLine(l) == l.kind # "blank"
RecordLines(doc) == SelectSeq(doc, IsRecordLine)

\* A line that is no record of n cells.
BadLine(l, n) == l.kind # "row" \/ Len(l.cells) # n

HeaderReadable(doc) == RecordLines(doc) # <<>> /\ RecordLines(doc)[1].kind = "row"

\* A header and data rows, all of the header's length.
WellFormed(doc) ==
    /\ HeaderReadable(doc)
    /\ \A i \in 1..Len(RecordLines(doc)) :
            ~BadLine(RecordLines(doc)[i], Len(RecordLines(doc)[1].cells))

\* Number of data rows before the first line that is no record of the
\* header's length.
GoodRows(doc) ==
    LET nb == RecordLines(doc)
        n == Len(nb[1].cells)
        bad == {i \in 2..Len(nb) : BadLine(nb[i], n)}
    IN IF bad = {} THEN Len(nb) - 1
       ELSE (CHOOSE i \in bad : \A j \in bad : i <= j) - 2

\* f is row's failure by position: the reason is the last cell and every
\* column i but the last maps header[i] to row[i].
PositionalFailure(f, header, row) ==
    /\ f.Reason = row[Len(header)]
    /\ \A i \in 1..(Len(header) - 1) :
            header[i] \in DOMAIN f.Fields /\ f.Fields[header[i]] = row[i]
    /\ \A k \in DOMAIN f.Fields : \E i \in 1..(Len(header) - 1) : header[i] = k
    /\ header[Len(header)] \notin DOMAIN f.Fields

\* f is row's failure as the loop builds it: the reason is the last cell, the
\* keys are the names of the columns but the last, and a name maps to the
\* cell of the last such column that bears it.
OverwritingFailure(f, header, row) ==
    /\ f.Reason = row[Len(header)]
    /\ DOMAIN f.Fields = {header[i] : i \in 1..(Len(header) - 1)}
    /\ \A i \in 1..(Len(header) - 1) :
            (\A j \in (i + 1)..(Len(header) - 1) : header[j] # header[i])
                => f.Fields[header[i]] = row[i]

Distinct(header) ==
    \A i, j \in 1..Len(header) : header[i] = header[j] => i = j

Malformed(doc) ==
    \E i \in 1..Len(RecordLines(doc)) :
        BadLine(RecordLines(doc)[i],
                IF RecordLines(doc)[1].kind = "row" THEN Len(RecordLines(doc)[1].cells)
                ELSE 0)

\* The call returned, without error, the failures of the rows before the
\* first malformed one and nothing else.
ReturnsGoodPrefix ==
    LET nb == RecordLines(resp.body) IN
    /\ ret.err = NoErr
    /\ ~ret.result.nil
    /\ Len(ret.result.val) = GoodRows(resp.body)
    /\ \A j \in 1..Len(ret.result.val) :
            OverwritingFailure(ret.result.val[j], nb[1].cells, nb[j + 1].cells)

\* C9 as stated: on 200 a malformed CSV never fails the call; it returns, with
\* a nil error, the failures of the rows before the first malformed row.
C9_MalformedNeverFails ==
    (Done("Failures") /\ Answered /\ resp.status = StatusOK /\ Malformed(resp.body))
    => /\ ret.err = NoErr
       /\ HeaderReadable(resp.body) => ReturnsGoodPrefix

\* C9 as amended: on 200, once the header row has been read, a malformed row
\* never fails the call: it returns, with a nil error, the failures of the
\* rows before the first malformed row; a header row that cannot be read (an
\* empty body, a parse or read error in the first record) fails the call with
\* the reader's error and a nil list.
C9_MalformedAfterHeaderNeverFails ==
    (Done("Failures") /\ Answered /\ resp.status = StatusOK) =>
        IF HeaderReadable(resp.body)
          THEN ReturnsGoodPrefix
          ELSE /\ ret.result.nil
               /\ ret.err.kind =
                    IF RecordLines(resp.body) = <<>> THEN "EOF"
                    ELSE RecordLines(resp.body)[1].kind

C9_Witness ==
    /\ Done("Failures") /\ Answered /\ resp.status = StatusOK
    /\ resp.body = <<Line("row", <<"email", "Ann">>), Line("row", <<"Ann", "email">>),
                     Line("row", <<"Ann">>)>>
    /\ ret.err = NoErr
    /\ Len(ret.result.val) = 1

\* C10: a call of Create, Get or Failures sends at most one request; a call
\* that returned sent none (the request was never built) or one; Get returns
\* the first row's status string as it came, known or not.
C10_AtMostOneRequest ==
    /\ requests <= 1
    /\ pc = "done" => requests = (IF ret.err.kind \in {"read", "build"} THEN 0 ELSE 1)
    /\ pc = "inRequest" => requests = 1
    /\ (Done("Get") /\ ret.err = NoErr) =>
            ret.result.val[1].Status = resp.body.result.rows[1].Status

C10_Witness ==
    /\ Done("Get") /\ ret.err = NoErr /\ requests = 1
    /\ ret.result.val[1].Status = "Paused"

\* C2: for every record of a filter result (a string under "marketoGUID", a
\* number under "seq", any other keys) that Filter returns decoded,
\* MarketoGUID is the value under "marketoGUID", Sequence the value under
\* "seq", and Fields the record without exactly these two keys.
C2_PromotesGuidAndSeq ==
    (Done("Filter") /\ ret.err = NoErr) =>
        \A i \in 1..Len(ret.result.val) :
            LET l == resp.body.result.rows[i]
                r == ret.result.val[i]
            IN (/\ {"marketoGUID", "seq"} \subseteq DOMAIN l
                /\ l["marketoGUID"].type = "string"
                /\ l["seq"].type = "number") =>
                /\ r.MarketoGUID = l["marketoGUID"].s
                /\ r.Sequence = l["seq"].n
                /\ r.Fields = [k \in (DOMAIN l) \ {"marketoGUID", "seq"} |-> l[k]]

====
